---- MODULE Spec2Model ----
(***************************************************************************)
(* Album key cache, ordering cache and ordering resolution of album.go.    *)
(*                                                                         *)
(* Strings are sequences of atoms: "/" is the path separator, every other  *)
(* atom stands for a run of non-separator characters.  The object store    *)
(* (ListObjects, GetObject) and the YAML parser are outside album.go:      *)
(* each call returns one of a small set of outcomes, chosen afresh at      *)
(* every call.  The clock is kept as the age of each slot's timestamp, in  *)
(* units of CACHE_INTERVAL, which is all NeedsKeyCacheUpdate and           *)
(* NeedsOrderingCacheUpdate read of it.                                    *)
(***************************************************************************)
EXTENDS Naturals, Integers, Sequences, FiniteSets, TLC

\* ------------------------------------------------------------------ bounds
\* concurrent callers of one cached read
NumCallers == 3
\* concurrent GetOrderedPhotos requests
NumRequests == 1
\* entries of a preferred list
MaxLen == 2
\* image keys of a listing
MaxKeys == 7

\* --------------------------------------------------------------- constants
CACHE_INTERVAL == 1
ORDERING_YAML_NAME == <<"ordering.yaml">>
Path == <<"/", "p", "/">>
BucketPrefix == <<"p", "/">>

Callers == 1..NumCallers
Requests == 1..NumRequests
Routines == Callers \cup Requests
\* time.Now().Sub(last update) is kept up to "more than CACHE_INTERVAL";
\* the zero time.Time of a new Album is that old
Stale == CACHE_INTERVAL + 1
\* an atomic.Value, a channel result or a local not yet set: <<>>, else <<v>>
NoValue == <<>>
Some(v) == <<v>>
ValueOf(x) == x[1]
NoError == "nil"
Free == 0

\* ----------------------------------------------------------------- strings
Root(name) == BucketPrefix \o name

\* a trim that removes one leading separator and no more
TrimOneLeft(s) ==
    IF s # <<>> /\ Head(s) = "/" THEN Tail(s) ELSE s

RECURSIVE TrimLeft(_)
TrimLeft(s) ==
    IF s # <<>> /\ Head(s) = "/" THEN TrimLeft(Tail(s)) ELSE s

HasSuffix(s, suffix) ==
    /\ Len(s) >= Len(suffix)
    /\ SubSeq(s, Len(s) - Len(suffix) + 1, Len(s)) = suffix

\* url.Parse(base).ResolveReference(url.Parse(ref)).String() for plain paths:
\* a reference that starts "//" names a host and is kept; otherwise the
\* reference replaces the base's last segment (or the whole path when it is
\* absolute) and the result carries exactly one leading separator.
RECURSIVE DirOf(_)
DirOf(base) ==
    IF base = <<>> \/ base[Len(base)] = "/" THEN base
    ELSE DirOf(SubSeq(base, 1, Len(base) - 1))

ResolveReference(base, ref) ==
    IF Len(ref) >= 2 /\ ref[1] = "/" /\ ref[2] = "/" THEN ref
    ELSE LET full == IF ref = <<>> THEN base
                     ELSE IF ref[1] = "/" THEN ref ELSE DirOf(base) \o ref
         IN  <<"/">> \o (IF full # <<>> /\ full[1] = "/" THEN Tail(full) ELSE full)

\* -------------------------------------------------------------- PathMerge
containsPath(corpus, findme) ==
    \E i \in 1..Len(corpus) : TrimLeft(corpus[i]) = TrimLeft(findme)

\* a first pass that forgets to drop the keys the bucket does not hold
appendPreferredUnchecked(bucketKeys, configKeys, mergedKeys) ==
    mergedKeys \o configKeys

RECURSIVE appendPreferred(_, _, _)
appendPreferred(bucketKeys, configKeys, mergedKeys) ==
    IF configKeys = <<>> THEN mergedKeys
    ELSE appendPreferred(bucketKeys, Tail(configKeys),
             IF containsPath(bucketKeys, Head(configKeys))
             THEN Append(mergedKeys, Head(configKeys))
             ELSE mergedKeys)

\* a second pass that puts each remaining key in front of the list
RECURSIVE appendRemainingInFront(_, _)
appendRemainingInFront(bucketKeys, mergedKeys) ==
    IF bucketKeys = <<>> THEN mergedKeys
    ELSE appendRemainingInFront(Tail(bucketKeys),
             IF \A i \in 1..Len(mergedKeys) :
                    TrimLeft(mergedKeys[i]) # TrimLeft(Head(bucketKeys))
             THEN <<Head(bucketKeys)>> \o mergedKeys
             ELSE mergedKeys)

RECURSIVE appendRemaining(_, _)
appendRemaining(bucketKeys, mergedKeys) ==
    IF bucketKeys = <<>> THEN mergedKeys
    ELSE appendRemaining(Tail(bucketKeys),
             IF ~containsPath(mergedKeys, Head(bucketKeys))
             THEN Append(mergedKeys, Head(bucketKeys))
             ELSE mergedKeys)

\* a merge that stops after the configured keys
mergeListConfiguredOnly(bucketKeys, configKeys) ==
    appendPreferred(bucketKeys, configKeys, <<>>)

mergeList(bucketKeys, configKeys) ==
    appendRemaining(bucketKeys, appendPreferred(bucketKeys, configKeys, <<>>))

\* ------------------------------------------------- the store's answers
\* ListObjects: an error, or the objects under the prefix in the store's
\* (sorted) order; the prefix's own folder marker may be among them.
BucketListings ==
    { << BucketPrefix, Root(ORDERING_YAML_NAME) >>,
      << Root(<<"a">>), Root(<<"b">>), Root(ORDERING_YAML_NAME) >>,
      << Root(<<"x">> \o ORDERING_YAML_NAME) >> }

ListOutcomes ==
    {[err |-> "S3Error", objects |-> <<>>]}
        \cup {[err |-> NoError, objects |-> l] : l \in BucketListings}

ZeroConfiguration ==
    [Cover |-> <<>>, Thumbnails |-> <<>>, Ordering |-> <<>>,
     negativeCacheThis |-> FALSE]

\* ordering.yaml as written by the album's owner (relative references)
Documents ==
    { [Cover |-> <<"b">>, Thumbnails |-> << <<"b">> >>,
       Ordering |-> << <<"b">>, <<"z">> >>, negativeCacheThis |-> FALSE] }

\* what yaml.Unmarshal leaves in the struct when it returns an error:
\* nothing (syntax error) or the fields decoded before a type error
PartialDocuments ==
    { ZeroConfiguration,
      [ZeroConfiguration EXCEPT !.Cover = <<"a">>] }

GetOutcomes ==
    {[kind |-> "S3Error", doc |-> ZeroConfiguration],
     [kind |-> "NotFound", doc |-> ZeroConfiguration]}
        \cup {[kind |-> "Malformed", doc |-> d] : d \in PartialDocuments}
        \cup {[kind |-> "Ok", doc |-> d] : d \in Documents}

\* -------------------------------------------------------------- fetches
GetAllObjectKeysFromBucket(outcome) ==
    IF outcome.err # NoError THEN [keys |-> <<>>, err |-> outcome.err]
    ELSE [keys |-> SelectSeq(outcome.objects, LAMBDA key : key[Len(key)] # "/"),
          err |-> NoError]

ResolveAll(keys) ==
    keys \o [i \in 1..Len(keys) |-> ResolveReference(Path, keys[i])]

GetAlbumOrderingConfigurationFromS3AndPreprocess(outcome) ==
    CASE outcome.kind = "S3Error" ->
            [ordering |-> ZeroConfiguration, err |-> "S3Error"]
      [] outcome.kind = "NotFound" ->
            [ordering |-> [ZeroConfiguration EXCEPT !.negativeCacheThis = TRUE],
             err |-> "NotFound"]
      [] outcome.kind = "Malformed" ->
            [ordering |-> [outcome.doc EXCEPT !.negativeCacheThis = TRUE],
             err |-> "ParseError"]
      [] OTHER ->
            [ordering |->
                [Cover |-> IF outcome.doc.Cover # <<>>
                           THEN ResolveReference(Path, outcome.doc.Cover)
                           ELSE <<>>,
                 Thumbnails |-> ResolveAll(outcome.doc.Thumbnails),
                 Ordering |-> ResolveAll(outcome.doc.Ordering),
                 negativeCacheThis |-> FALSE],
             err |-> NoError]

\* ------------------------------------------------------ OrderingResolver
GetPhotoForKey(key) == [key |-> key]

Renderables(keys) == [i \in 1..Len(keys) |-> GetPhotoForKey(keys[i])]

CleanImageKeys(imageKeys) ==
    SelectSeq(imageKeys, LAMBDA v : ~HasSuffix(v, ORDERING_YAML_NAME))

CoverKey(cleanImageKeys, configuration) ==
    IF configuration.Cover # <<>>
           /\ containsPath(cleanImageKeys, configuration.Cover)
    THEN configuration.Cover
    ELSE cleanImageKeys[1]

ThumbKeys(cleanImageKeys, configuration) ==
    IF Len(configuration.Thumbnails) > 0
    THEN LET thumbKeys == mergeList(cleanImageKeys, configuration.Thumbnails)
         IN  IF Len(thumbKeys) > 5 THEN SubSeq(thumbKeys, 1, 5) ELSE thumbKeys
    ELSE IF Len(cleanImageKeys) > 6 THEN SubSeq(cleanImageKeys, 2, 6)
         ELSE IF Len(cleanImageKeys) > 1
              THEN SubSeq(cleanImageKeys, 2, Len(cleanImageKeys))
              ELSE cleanImageKeys

\* the part of GetOrderedPhotos that follows the two reads
OrderedPhotos(configuration, keyResult) ==
    IF keyResult.err # NoError
    THEN [status |-> "error", err |-> keyResult.err,
          Cover |-> GetPhotoForKey(<<>>), Thumbnails |-> <<>>, Ordering |-> <<>>]
    ELSE LET cleanImageKeys == CleanImageKeys(keyResult.keys) IN
         IF cleanImageKeys = <<>>
         THEN \* both cover branches reach cleanImageKeys[0]: index out of range
              [status |-> "panic", err |-> NoError,
               Cover |-> GetPhotoForKey(<<>>), Thumbnails |-> <<>>, Ordering |-> <<>>]
         ELSE [status |-> "ok", err |-> NoError,
               Cover |-> GetPhotoForKey(CoverKey(cleanImageKeys, configuration)),
               Thumbnails |-> Renderables(ThumbKeys(cleanImageKeys, configuration)),
               Ordering |-> Renderables(mergeList(cleanImageKeys,
                                                  configuration.Ordering))]

\* ------------------------------------------------------------------ state
VARIABLES
    KeyCache,                  \* atomic.Value: NoValue or Some(key list)
    OrderingCache,             \* atomic.Value: NoValue or Some(configuration)
    sinceKeyCacheUpdate,       \* time.Now().Sub(LastKeyCacheUpdate)
    sinceOrderingCacheUpdate,  \* time.Now().Sub(LastOrderingCacheUpdate)
    KeyCacheUpdateMutex,       \* Free or the caller whose goroutine holds it
    AlbumOrderingUpdateMutex,
    cpc,                       \* where each caller is in GetOrderedPhotos
    kpc,                       \* each caller's GetAllObjectKeys goroutine
    opc,                       \* each caller's GetAlbumOrderingConfiguration goroutine
    klocal,                    \* keys, err of the key goroutine
    olocal,                    \* albumOrdering, err of the ordering goroutine
    configuration,             \* albumOrderingConfiguration of GetOrderedPhotos
    ret,                       \* what the call that returned in this step returned
    method,                    \* the cached read CacheSpec's callers call
    merge,                     \* a call of a pure function: arguments, result
    kbatch,                    \* history: the stale key reads of this stale window
    obatch,                    \* history: the stale ordering reads of this window
    sinceNegativeStore,        \* history: age of the last negative store
    onegative                  \* history: reads begun within TTL of that store

vars == <<KeyCache, OrderingCache, sinceKeyCacheUpdate,
          sinceOrderingCacheUpdate, KeyCacheUpdateMutex,
          AlbumOrderingUpdateMutex, cpc, kpc, opc, klocal, olocal,
          configuration, ret, method, merge, kbatch, obatch,
          sinceNegativeStore, onegative>>

keySlot == <<KeyCache, sinceKeyCacheUpdate, KeyCacheUpdateMutex>>
ordSlot == <<OrderingCache, sinceOrderingCacheUpdate, AlbumOrderingUpdateMutex,
             sinceNegativeStore>>
keyRoutines == <<kpc, klocal, kbatch>>
ordRoutines == <<opc, olocal, obatch, onegative>>

\* the album as NewAlbum leaves it: nothing cached, nothing running
NewAlbum ==
    /\ KeyCache = NoValue
    /\ OrderingCache = NoValue
    /\ sinceKeyCacheUpdate = Stale
    /\ sinceOrderingCacheUpdate = Stale
    /\ KeyCacheUpdateMutex = Free
    /\ AlbumOrderingUpdateMutex = Free
    /\ cpc = [c \in Routines |-> "idle"]
    /\ kpc = [c \in Routines |-> "done"]
    /\ opc = [c \in Routines |-> "done"]
    /\ klocal = [c \in Routines |-> NoValue]
    /\ olocal = [c \in Routines |-> NoValue]
    /\ configuration = [c \in Routines |-> NoValue]
    /\ ret = NoValue
    /\ kbatch = [c \in Routines |-> "none"]
    /\ obatch = [c \in Routines |-> "none"]
    /\ sinceNegativeStore = Stale
    /\ onegative = [c \in Routines |-> FALSE]

Init ==
    /\ NewAlbum
    /\ method = "GetOrderedPhotos"
    /\ merge = NoValue

\* a staleness test that always asks for an update
AlwaysNeedsUpdate == TRUE

NeedsKeyCacheUpdate == sinceKeyCacheUpdate > CACHE_INTERVAL

NeedsOrderingCacheUpdate == sinceOrderingCacheUpdate > CACHE_INTERVAL

\* a refresh that stores whatever the fetch returned
StoreAnyway(result) == TRUE

StoreKeys(result) == result.err = NoError

StoreOrdering(result) ==
    result.err = NoError \/ result.ordering.negativeCacheThis

\* history: a store ends the stale window, a failed fetch is remembered
BatchAfterFetch(batch, c, stored) ==
    IF stored THEN [d \in Routines |-> "none"]
    ELSE [batch EXCEPT ![c] = IF @ = "fetching" THEN "failed" ELSE @]

\* ------------------------------------------------------------- the clock
Older(age) == IF age < Stale THEN age + 1 ELSE age

Tick ==
    /\ sinceKeyCacheUpdate' = Older(sinceKeyCacheUpdate)
    /\ sinceOrderingCacheUpdate' = Older(sinceOrderingCacheUpdate)
    /\ sinceNegativeStore' = Older(sinceNegativeStore)
    /\ ret' = NoValue
    /\ UNCHANGED <<method, merge>>
    /\ UNCHANGED <<KeyCache, OrderingCache, KeyCacheUpdateMutex,
                   AlbumOrderingUpdateMutex, cpc, configuration,
                   keyRoutines, ordRoutines>>

\* ------------------------------------------------------ GetOrderedPhotos
NoRoutine(c) == cpc[c] = "idle" /\ kpc[c] = "done" /\ opc[c] = "done"

\* a request enters GetOrderedPhotos, and GetAlbumOrderingConfiguration
\* starts its goroutine; the caller waits on the channel
GetOrderedPhotos(c) ==
    /\ NoRoutine(c)
    /\ cpc' = [cpc EXCEPT ![c] = "photos_ordering"]
    /\ opc' = [opc EXCEPT ![c] = "load"]
    /\ obatch' = [obatch EXCEPT ![c] = "none"]
    /\ onegative' = [onegative EXCEPT ![c] = sinceNegativeStore <= CACHE_INTERVAL]
    /\ ret' = NoValue
    /\ UNCHANGED <<method, merge>>
    /\ UNCHANGED <<keySlot, ordSlot, keyRoutines, olocal, configuration>>

\* a caller enters GetAlbumOrderingConfiguration itself
GetAlbumOrderingConfiguration(c) ==
    /\ method = "GetAlbumOrderingConfiguration"
    /\ NoRoutine(c)
    /\ cpc' = [cpc EXCEPT ![c] = "ordering"]
    /\ opc' = [opc EXCEPT ![c] = "load"]
    /\ obatch' = [obatch EXCEPT ![c] = "none"]
    /\ onegative' = [onegative EXCEPT ![c] = sinceNegativeStore <= CACHE_INTERVAL]
    /\ ret' = NoValue
    /\ UNCHANGED <<method, merge>>
    /\ UNCHANGED <<keySlot, ordSlot, keyRoutines, olocal, configuration>>

\* a caller enters GetAllObjectKeys itself
GetAllObjectKeys(c) ==
    /\ method = "GetAllObjectKeys"
    /\ NoRoutine(c)
    /\ cpc' = [cpc EXCEPT ![c] = "keys"]
    /\ kpc' = [kpc EXCEPT ![c] = "load"]
    /\ kbatch' = [kbatch EXCEPT ![c] = "none"]
    /\ ret' = NoValue
    /\ UNCHANGED <<method, merge>>
    /\ UNCHANGED <<keySlot, ordSlot, ordRoutines, klocal, configuration>>

\* the caller's end of GetAlbumOrderingConfiguration's channel: the result is
\* returned (an error drops the value); GetOrderedPhotos logs the error,
\* keeps the configuration, and GetAllObjectKeys starts its goroutine
ReceiveOrdering(c, result, cached) ==
    LET returned == IF result.err # NoError
                    THEN [ordering |-> ZeroConfiguration, err |-> result.err]
                    ELSE result
    IN  /\ cpc[c] \in {"ordering", "photos_ordering"}
        /\ UNCHANGED <<method, merge>>
        /\ ret' = Some([call |-> "GetAlbumOrderingConfiguration", caller |-> c,
                        cached |-> cached, ordering |-> returned.ordering,
                        err |-> returned.err,
                        afterNegative |->
                            onegative[c] /\ sinceNegativeStore <= CACHE_INTERVAL])
        /\ IF cpc[c] = "photos_ordering"
           THEN /\ configuration' =
                       [configuration EXCEPT ![c] = Some(returned.ordering)]
                /\ cpc' = [cpc EXCEPT ![c] = "photos_keys"]
                /\ kpc' = [kpc EXCEPT ![c] = "load"]
                /\ kbatch' = [kbatch EXCEPT ![c] = "none"]
           ELSE /\ cpc' = [cpc EXCEPT ![c] = "idle"]
                /\ UNCHANGED <<configuration, kpc, kbatch>>

\* the caller's end of GetAllObjectKeys' channel, and the rest of
\* GetOrderedPhotos
ReceiveKeys(c, result, cached) ==
    LET returned == IF result.err # NoError
                    THEN [keys |-> <<>>, err |-> result.err]
                    ELSE result
    IN  /\ cpc[c] \in {"keys", "photos_keys"}
        /\ UNCHANGED <<method, merge>>
        /\ IF cpc[c] = "photos_keys"
           THEN /\ ret' = Some([call |-> "GetOrderedPhotos", caller |-> c,
                                cached |-> cached, keys |-> returned,
                                configuration |-> ValueOf(configuration[c]),
                                albumOrdering |->
                                    OrderedPhotos(ValueOf(configuration[c]),
                                                  returned)])
                /\ configuration' = [configuration EXCEPT ![c] = NoValue]
           ELSE /\ ret' = Some([call |-> "GetAllObjectKeys", caller |-> c,
                                cached |-> cached, keys |-> returned])
                /\ UNCHANGED configuration
        /\ cpc' = [cpc EXCEPT ![c] = "idle"]

\* ------------------------------------------- GetAllObjectKeys goroutine
KeyLoad(c) ==
    /\ kpc[c] = "load"
    /\ kpc' = [kpc EXCEPT ![c] =
                 IF KeyCache # NoValue THEN "send_cached" ELSE "lock_first"]
    /\ kbatch' = [kbatch EXCEPT ![c] =
                    IF /\ KeyCache # NoValue
                       /\ NeedsKeyCacheUpdate
                       /\ \A d \in Routines : kbatch[d] \in {"none", "issued"}
                    THEN "issued" ELSE "none"]
    /\ ret' = NoValue
    /\ UNCHANGED <<method, merge>>
    /\ UNCHANGED <<keySlot, ordSlot, cpc, configuration, klocal, ordRoutines>>

\* a cached read that answers only once it can take the slot's mutex
KeySendCachedWhenUnlocked(c) ==
    /\ kpc[c] = "send_cached"
    /\ KeyCacheUpdateMutex = Free
    /\ ReceiveKeys(c, [keys |-> ValueOf(KeyCache), err |-> NoError], TRUE)
    /\ kpc' = [kpc EXCEPT ![c] = "lock_refresh"]
    /\ UNCHANGED <<keySlot, ordSlot, klocal, kbatch, ordRoutines>>

KeySendCached(c) ==
    /\ kpc[c] = "send_cached"
    /\ ReceiveKeys(c, [keys |-> ValueOf(KeyCache), err |-> NoError], TRUE)
    /\ kpc' = [kpc EXCEPT ![c] = "lock_refresh"]
    /\ UNCHANGED <<keySlot, ordSlot, klocal, kbatch, ordRoutines>>

KeyLockRefresh(c) ==
    /\ kpc[c] = "lock_refresh"
    /\ KeyCacheUpdateMutex = Free
    /\ KeyCacheUpdateMutex' = c
    /\ kpc' = [kpc EXCEPT ![c] =
                 IF NeedsKeyCacheUpdate THEN "fetch_refresh" ELSE "unlock_refresh"]
    /\ kbatch' = [kbatch EXCEPT ![c] =
                    IF NeedsKeyCacheUpdate /\ @ = "issued" THEN "fetching" ELSE @]
    /\ ret' = NoValue
    /\ UNCHANGED <<method, merge>>
    /\ UNCHANGED <<KeyCache, sinceKeyCacheUpdate, ordSlot, cpc, configuration,
                   klocal, ordRoutines>>

KeyFetchRefresh(c) ==
    /\ kpc[c] = "fetch_refresh"
    /\ \E outcome \in ListOutcomes :
          LET result == GetAllObjectKeysFromBucket(outcome) IN
          /\ KeyCache' = IF StoreKeys(result) THEN Some(result.keys) ELSE KeyCache
          /\ sinceKeyCacheUpdate' =
                 IF StoreKeys(result) THEN 0 ELSE sinceKeyCacheUpdate
          /\ klocal' = [klocal EXCEPT ![c] = Some(result)]
          /\ kbatch' = BatchAfterFetch(kbatch, c, StoreKeys(result))
    /\ kpc' = [kpc EXCEPT ![c] = "unlock_refresh"]
    /\ ret' = NoValue
    /\ UNCHANGED <<method, merge>>
    /\ UNCHANGED <<KeyCacheUpdateMutex, ordSlot, cpc, configuration, ordRoutines>>

KeyUnlockRefresh(c) ==
    /\ kpc[c] = "unlock_refresh"
    /\ KeyCacheUpdateMutex' = Free
    /\ kpc' = [kpc EXCEPT ![c] = "done"]
    /\ klocal' = [klocal EXCEPT ![c] = NoValue]
    /\ ret' = NoValue
    /\ UNCHANGED <<method, merge>>
    /\ UNCHANGED <<KeyCache, sinceKeyCacheUpdate, ordSlot, cpc, configuration,
                   kbatch, ordRoutines>>

\* a first fetch that does not wait for the slot's mutex
KeyLockFirstUnguarded(c) ==
    /\ kpc[c] = "lock_first"
    /\ KeyCacheUpdateMutex' = c
    /\ kpc' = [kpc EXCEPT ![c] = "fetch_first"]
    /\ ret' = NoValue
    /\ UNCHANGED <<method, merge>>
    /\ UNCHANGED <<KeyCache, sinceKeyCacheUpdate, ordSlot, cpc, configuration,
                   klocal, kbatch, ordRoutines>>

KeyLockFirst(c) ==
    /\ kpc[c] = "lock_first"
    /\ KeyCacheUpdateMutex = Free
    /\ KeyCacheUpdateMutex' = c
    /\ kpc' = [kpc EXCEPT ![c] = "fetch_first"]
    /\ ret' = NoValue
    /\ UNCHANGED <<method, merge>>
    /\ UNCHANGED <<KeyCache, sinceKeyCacheUpdate, ordSlot, cpc, configuration,
                   klocal, kbatch, ordRoutines>>

KeyFetchFirst(c) ==
    /\ kpc[c] = "fetch_first"
    /\ \E outcome \in ListOutcomes :
          LET result == GetAllObjectKeysFromBucket(outcome) IN
          /\ KeyCache' = IF StoreKeys(result) THEN Some(result.keys) ELSE KeyCache
          /\ sinceKeyCacheUpdate' =
                 IF StoreKeys(result) THEN 0 ELSE sinceKeyCacheUpdate
          /\ klocal' = [klocal EXCEPT ![c] = Some(result)]
          /\ kbatch' = BatchAfterFetch(kbatch, c, StoreKeys(result))
    /\ kpc' = [kpc EXCEPT ![c] = "send_first"]
    /\ ret' = NoValue
    /\ UNCHANGED <<method, merge>>
    /\ UNCHANGED <<KeyCacheUpdateMutex, ordSlot, cpc, configuration, ordRoutines>>

KeySendFirst(c) ==
    /\ kpc[c] = "send_first"
    /\ ReceiveKeys(c, ValueOf(klocal[c]), FALSE)
    /\ kpc' = [kpc EXCEPT ![c] = "unlock_first"]
    /\ UNCHANGED <<keySlot, ordSlot, klocal, kbatch, ordRoutines>>

KeyUnlockFirst(c) ==
    /\ kpc[c] = "unlock_first"
    /\ KeyCacheUpdateMutex' = Free
    /\ kpc' = [kpc EXCEPT ![c] = "done"]
    /\ klocal' = [klocal EXCEPT ![c] = NoValue]
    /\ ret' = NoValue
    /\ UNCHANGED <<method, merge>>
    /\ UNCHANGED <<KeyCache, sinceKeyCacheUpdate, ordSlot, cpc, configuration,
                   kbatch, ordRoutines>>

\* ------------------------------ GetAlbumOrderingConfiguration goroutine
OrderingLoad(c) ==
    /\ opc[c] = "load"
    /\ opc' = [opc EXCEPT ![c] =
                 IF OrderingCache # NoValue THEN "send_cached" ELSE "lock_first"]
    /\ obatch' = [obatch EXCEPT ![c] =
                    IF /\ OrderingCache # NoValue
                       /\ NeedsOrderingCacheUpdate
                       /\ \A d \in Routines : obatch[d] \in {"none", "issued"}
                    THEN "issued" ELSE "none"]
    /\ ret' = NoValue
    /\ UNCHANGED <<method, merge>>
    /\ UNCHANGED <<keySlot, ordSlot, cpc, configuration, olocal, onegative,
                   keyRoutines>>

OrderingSendCached(c) ==
    /\ opc[c] = "send_cached"
    /\ ReceiveOrdering(c, [ordering |-> ValueOf(OrderingCache), err |-> NoError],
                       TRUE)
    /\ opc' = [opc EXCEPT ![c] = "lock_refresh"]
    /\ UNCHANGED <<keySlot, ordSlot, olocal, obatch, onegative, klocal>>

OrderingLockRefresh(c) ==
    /\ opc[c] = "lock_refresh"
    /\ AlbumOrderingUpdateMutex = Free
    /\ AlbumOrderingUpdateMutex' = c
    /\ opc' = [opc EXCEPT ![c] =
                 IF NeedsOrderingCacheUpdate THEN "fetch_refresh"
                 ELSE "unlock_refresh"]
    /\ obatch' = [obatch EXCEPT ![c] =
                    IF NeedsOrderingCacheUpdate /\ @ = "issued"
                    THEN "fetching" ELSE @]
    /\ ret' = NoValue
    /\ UNCHANGED <<method, merge>>
    /\ UNCHANGED <<keySlot, OrderingCache, sinceOrderingCacheUpdate,
                   sinceNegativeStore, cpc, configuration, olocal, onegative,
                   keyRoutines>>

OrderingFetchRefresh(c) ==
    /\ opc[c] = "fetch_refresh"
    /\ \E outcome \in GetOutcomes :
          LET result == GetAlbumOrderingConfigurationFromS3AndPreprocess(outcome) IN
          /\ OrderingCache' =
                 IF StoreOrdering(result) THEN Some(result.ordering)
                 ELSE OrderingCache
          /\ sinceOrderingCacheUpdate' =
                 IF StoreOrdering(result) THEN 0 ELSE sinceOrderingCacheUpdate
          /\ olocal' = [olocal EXCEPT ![c] = Some(result)]
          /\ sinceNegativeStore' =
                 IF result.ordering.negativeCacheThis THEN 0
                 ELSE sinceNegativeStore
          /\ obatch' = BatchAfterFetch(obatch, c, StoreOrdering(result))
    /\ opc' = [opc EXCEPT ![c] = "unlock_refresh"]
    /\ ret' = NoValue
    /\ UNCHANGED <<method, merge>>
    /\ UNCHANGED <<keySlot, AlbumOrderingUpdateMutex, cpc, configuration,
                   onegative, keyRoutines>>

OrderingUnlockRefresh(c) ==
    /\ opc[c] = "unlock_refresh"
    /\ AlbumOrderingUpdateMutex' = Free
    /\ opc' = [opc EXCEPT ![c] = "done"]
    /\ olocal' = [olocal EXCEPT ![c] = NoValue]
    /\ onegative' = [onegative EXCEPT ![c] = FALSE]
    /\ ret' = NoValue
    /\ UNCHANGED <<method, merge>>
    /\ UNCHANGED <<keySlot, OrderingCache, sinceOrderingCacheUpdate,
                   sinceNegativeStore, cpc, configuration, obatch, keyRoutines>>

OrderingLockFirst(c) ==
    /\ opc[c] = "lock_first"
    /\ AlbumOrderingUpdateMutex = Free
    /\ AlbumOrderingUpdateMutex' = c
    /\ opc' = [opc EXCEPT ![c] = "fetch_first"]
    /\ ret' = NoValue
    /\ UNCHANGED <<method, merge>>
    /\ UNCHANGED <<keySlot, OrderingCache, sinceOrderingCacheUpdate,
                   sinceNegativeStore, cpc, configuration, olocal, obatch,
                   onegative, keyRoutines>>

OrderingFetchFirst(c) ==
    /\ opc[c] = "fetch_first"
    /\ \E outcome \in GetOutcomes :
          LET result == GetAlbumOrderingConfigurationFromS3AndPreprocess(outcome) IN
          /\ OrderingCache' =
                 IF StoreOrdering(result) THEN Some(result.ordering)
                 ELSE OrderingCache
          /\ sinceOrderingCacheUpdate' =
                 IF StoreOrdering(result) THEN 0 ELSE sinceOrderingCacheUpdate
          /\ olocal' = [olocal EXCEPT ![c] = Some(result)]
          /\ sinceNegativeStore' =
                 IF result.ordering.negativeCacheThis THEN 0
                 ELSE sinceNegativeStore
          /\ obatch' = BatchAfterFetch(obatch, c, StoreOrdering(result))
    /\ opc' = [opc EXCEPT ![c] = "send_first"]
    /\ ret' = NoValue
    /\ UNCHANGED <<method, merge>>
    /\ UNCHANGED <<keySlot, AlbumOrderingUpdateMutex, cpc, configuration,
                   onegative, keyRoutines>>

OrderingSendFirst(c) ==
    /\ opc[c] = "send_first"
    /\ ReceiveOrdering(c, ValueOf(olocal[c]), FALSE)
    /\ opc' = [opc EXCEPT ![c] = "unlock_first"]
    /\ UNCHANGED <<keySlot, ordSlot, olocal, obatch, onegative, klocal>>

OrderingUnlockFirst(c) ==
    /\ opc[c] = "unlock_first"
    /\ AlbumOrderingUpdateMutex' = Free
    /\ opc' = [opc EXCEPT ![c] = "done"]
    /\ olocal' = [olocal EXCEPT ![c] = NoValue]
    /\ onegative' = [onegative EXCEPT ![c] = FALSE]
    /\ ret' = NoValue
    /\ UNCHANGED <<method, merge>>
    /\ UNCHANGED <<keySlot, OrderingCache, sinceOrderingCacheUpdate,
                   sinceNegativeStore, cpc, configuration, obatch, keyRoutines>>

Routine(c) ==
    \/ KeyLoad(c) \/ KeySendCached(c) \/ KeyLockRefresh(c)
    \/ KeyFetchRefresh(c) \/ KeyUnlockRefresh(c)
    \/ KeyLockFirst(c) \/ KeyFetchFirst(c) \/ KeySendFirst(c)
    \/ KeyUnlockFirst(c)
    \/ OrderingLoad(c) \/ OrderingSendCached(c) \/ OrderingLockRefresh(c)
    \/ OrderingFetchRefresh(c) \/ OrderingUnlockRefresh(c)
    \/ OrderingLockFirst(c) \/ OrderingFetchFirst(c)
    \/ OrderingSendFirst(c) \/ OrderingUnlockFirst(c)

\* requests for the album's photos, each reading the ordering and then the keys
Next ==
    \/ Tick
    \/ \E c \in Requests : GetOrderedPhotos(c) \/ Routine(c)

Spec == Init /\ [][Next]_vars

\* One cached read under concurrent callers.  The two slots share no state
\* (each has its own value, timestamp and mutex), so a behaviour exercises
\* one of them: the method is chosen at the start.
CacheInit ==
    /\ NewAlbum
    /\ method \in {"GetAllObjectKeys", "GetAlbumOrderingConfiguration"}
    /\ merge = NoValue

CacheNext ==
    \/ Tick
    \/ \E c \in Callers :
          GetAllObjectKeys(c) \/ GetAlbumOrderingConfiguration(c) \/ Routine(c)

CacheSpec == CacheInit /\ [][CacheNext]_vars

\* The goroutine of a cached read runs on its own once started, and its send
\* meets a caller already waiting on the channel: loading the slot and
\* answering from it are steps the scheduler takes.  Nothing is assumed of
\* the store: a fetch may never return, and the mutex may stay held.
CachedReadFairness ==
    \A c \in Callers :
        /\ WF_vars(KeyLoad(c))
        /\ WF_vars(KeySendCached(c))
        /\ WF_vars(OrderingLoad(c))
        /\ WF_vars(OrderingSendCached(c))

LiveCacheSpec == CacheSpec /\ CachedReadFairness

\* ---------------------------------------------------- mergeList on its own
\* bucketKeys is always GetOrderedPhotos' cleanImageKeys: keys of one listing,
\* each once, in the store's order
ListedKeys == << Root(<<"a">>), Root(<<"b">>), Root(<<"c">>) >>

RECURSIVE SubLists(_)
SubLists(keys) ==
    IF keys = <<>> THEN {<<>>}
    ELSE LET rest == SubLists(Tail(keys))
         IN  rest \cup {<<Head(keys)>> \o l : l \in rest}

\* configKeys is a list of the cached configuration: the document's entries
\* as written (a document cached after a parse error) or the same entries
\* followed by their resolutions (a document that parsed)
WrittenKeys ==
    { <<"a">>, <<"b">>, <<"z">>, <<"/", "p", "/", "a">>, <<"/", "/", "p", "/", "b">> }

WrittenLists == UNION {[1..n -> WrittenKeys] : n \in 0..MaxLen}

ConfiguredLists == WrittenLists \cup {ResolveAll(l) : l \in WrittenLists}

MergeInit ==
    /\ NewAlbum
    /\ method = "mergeList"
    /\ \E bucketKeys \in SubLists(ListedKeys), configKeys \in ConfiguredLists :
          merge = Some([bucketKeys |-> bucketKeys, configKeys |-> configKeys,
                        mergedKeys |-> NoValue])

MergeCall ==
    /\ merge # NoValue
    /\ ValueOf(merge).mergedKeys = NoValue
    /\ merge' = Some([ValueOf(merge) EXCEPT !.mergedKeys =
                        Some(mergeList(ValueOf(merge).bucketKeys,
                                       ValueOf(merge).configKeys))])
    /\ UNCHANGED <<KeyCache, OrderingCache, sinceKeyCacheUpdate,
                   sinceOrderingCacheUpdate, KeyCacheUpdateMutex,
                   AlbumOrderingUpdateMutex, cpc, kpc, opc, klocal, olocal,
                   configuration, ret, method, kbatch, obatch,
                   sinceNegativeStore, onegative>>

MergeSpec == MergeInit /\ [][MergeCall]_vars

\* -------------------------------------------------- containsPath on its own
\* corpus is cleanImageKeys (keys of a listing) or mergeList's mergedKeys
\* (configured keys among them); findme is a listed or a configured key
Corpora == SubLists(ListedKeys) \cup ConfiguredLists

SoughtKeys ==
    WrittenKeys \cup {ResolveReference(Path, k) : k \in WrittenKeys}
                \cup {ListedKeys[i] : i \in 1..Len(ListedKeys)}

ContainsInit ==
    /\ NewAlbum
    /\ method = "containsPath"
    /\ \E corpus \in Corpora, findme \in SoughtKeys :
          merge = Some([corpus |-> corpus, findme |-> findme, found |-> NoValue])

ContainsCall ==
    /\ merge # NoValue
    /\ ValueOf(merge).found = NoValue
    /\ merge' = Some([ValueOf(merge) EXCEPT !.found =
                        Some(containsPath(ValueOf(merge).corpus,
                                          ValueOf(merge).findme))])
    /\ UNCHANGED <<KeyCache, OrderingCache, sinceKeyCacheUpdate,
                   sinceOrderingCacheUpdate, KeyCacheUpdateMutex,
                   AlbumOrderingUpdateMutex, cpc, kpc, opc, klocal, olocal,
                   configuration, ret, method, kbatch, obatch,
                   sinceNegativeStore, onegative>>

ContainsSpec == ContainsInit /\ [][ContainsCall]_vars

\* ------------------------------- GetOrderedPhotos after its two reads
\* the image keys of a listing, in the store's order
KeyNames == <<"a", "b", "c", "d", "e", "f", "g", "h", "i">>

ImageKeys(n) == [i \in 1..n |-> Root(<<KeyNames[i]>>)]

\* what GetAllObjectKeys returns with no error: the image keys, with the
\* ordering document or a key whose name ends like it, or neither
KeyLists ==
    UNION { { ImageKeys(n),
              ImageKeys(n) \o <<Root(ORDERING_YAML_NAME)>>,
              ImageKeys(n) \o <<Root(<<"x">> \o ORDERING_YAML_NAME)>> }
            : n \in 0..MaxKeys }

WrittenDocuments ==
    [ Cover : {<<>>, <<"b">>, <<"z">>, <<"/", "p", "/", "a">>},
      Thumbnails : WrittenLists,
      Ordering : {<<>>, << <<"c">>, <<"z">>, <<"a">> >>},
      negativeCacheThis : {FALSE} ]

\* what GetAlbumOrderingConfiguration returns: the zero value with an error,
\* or a value that was stored in the slot
ReceivedConfigurations ==
    LET fetched == {GetAlbumOrderingConfigurationFromS3AndPreprocess(o) :
                       o \in GetOutcomes
                           \cup {[kind |-> "Ok", doc |-> d] : d \in WrittenDocuments}}
    IN  {ZeroConfiguration}
            \cup {r.ordering : r \in {f \in fetched : StoreOrdering(f)}}

ResolveInit ==
    /\ NewAlbum
    /\ method = "GetOrderedPhotos"
    /\ \E c \in ReceivedConfigurations, keys \in KeyLists :
          merge = Some([configuration |-> c, imageKeys |-> keys,
                        albumOrdering |-> NoValue])

ResolveCall ==
    /\ merge # NoValue
    /\ ValueOf(merge).albumOrdering = NoValue
    /\ merge' = Some([ValueOf(merge) EXCEPT !.albumOrdering =
                        Some(OrderedPhotos(ValueOf(merge).configuration,
                                           [keys |-> ValueOf(merge).imageKeys,
                                            err |-> NoError]))])
    /\ UNCHANGED <<KeyCache, OrderingCache, sinceKeyCacheUpdate,
                   sinceOrderingCacheUpdate, KeyCacheUpdateMutex,
                   AlbumOrderingUpdateMutex, cpc, kpc, opc, klocal, olocal,
                   configuration, ret, method, kbatch, obatch,
                   sinceNegativeStore, onegative>>

ResolveSpec == ResolveInit /\ [][ResolveCall]_vars

\* ------------------------------------- the ordering fetch on its own
\* the store's answer to GetObject: a failure, or a document as written
FetchOutcomes == GetOutcomes \cup {[kind |-> "Ok", doc |-> d] : d \in WrittenDocuments}

PreprocessInit ==
    /\ NewAlbum
    /\ method = "GetAlbumOrderingConfigurationFromS3AndPreprocess"
    /\ \E o \in FetchOutcomes : merge = Some([outcome |-> o, fetched |-> NoValue])

PreprocessCall ==
    /\ merge # NoValue
    /\ ValueOf(merge).fetched = NoValue
    /\ merge' = Some([ValueOf(merge) EXCEPT !.fetched =
                        Some(GetAlbumOrderingConfigurationFromS3AndPreprocess(
                                 ValueOf(merge).outcome))])
    /\ UNCHANGED <<KeyCache, OrderingCache, sinceKeyCacheUpdate,
                   sinceOrderingCacheUpdate, KeyCacheUpdateMutex,
                   AlbumOrderingUpdateMutex, cpc, kpc, opc, klocal, olocal,
                   configuration, ret, method, kbatch, obatch,
                   sinceNegativeStore, onegative>>

PreprocessSpec == PreprocessInit /\ [][PreprocessCall]_vars

\* ================================================================ claims
\* a string without its leading path separators, stated without TrimLeft
Stripped(s) ==
    LET k == CHOOSE n \in 0..Len(s) :
                 /\ \A i \in 1..n : s[i] = "/"
                 /\ n = Len(s) \/ s[n + 1] # "/"
    IN  SubSeq(s, k + 1, Len(s))

SameKey(k1, k2) == Stripped(k1) = Stripped(k2)

Entries(list) == {list[i] : i \in 1..Len(list)}

Merged == merge # NoValue /\ ValueOf(merge).mergedKeys # NoValue
Authoritative == ValueOf(merge).bucketKeys
Preferred == ValueOf(merge).configKeys
MergedKeys == ValueOf(ValueOf(merge).mergedKeys)

Returned(call) == ret # NoValue /\ ValueOf(ret).call = call
Result == ValueOf(ret)

KeyFetches == {"fetch_first", "fetch_refresh"}
Fetched == {"fetching", "failed"}

\* C1 as stated: of the reads that found a slot stale before any of them
\* fetched, at most one ever fetches, whatever the fetch returns.
C1_ExactlyOneFetch ==
    /\ Cardinality({c \in Routines : kbatch[c] \in Fetched}) <= 1
    /\ Cardinality({c \in Routines : obatch[c] \in Fetched}) <= 1

\* C1 as amended: a refresh fetch runs only under the slot's mutex and only
\* while the slot is still stale at the re-check, so at most one of the
\* concurrent stale reads is fetching at a time and a fetch that is stored
\* is the last one; a second read of them fetches only after a fetch that
\* failed and stored nothing.
C1_OneFetchUnlessItFails ==
    /\ \A c \in Routines :
          /\ kpc[c] = "fetch_refresh" =>
                 sinceKeyCacheUpdate > CACHE_INTERVAL /\ KeyCacheUpdateMutex = c
          /\ opc[c] = "fetch_refresh" =>
                 /\ sinceOrderingCacheUpdate > CACHE_INTERVAL
                 /\ AlbumOrderingUpdateMutex = c
    /\ Cardinality({c \in Routines : kpc[c] \in KeyFetches}) <= 1
    /\ Cardinality({c \in Routines : opc[c] \in KeyFetches}) <= 1
    /\ Cardinality({c \in Routines : kbatch[c] = "fetching"}) <= 1
    /\ Cardinality({c \in Routines : obatch[c] = "fetching"}) <= 1
    /\ \A c \in Routines :
          /\ kbatch[c] = "fetching" => kpc[c] = "fetch_refresh"
          /\ obatch[c] = "fetching" => opc[c] = "fetch_refresh"

C1_Witness ==
    \/ /\ Cardinality({c \in Routines : kbatch[c] # "none"}) >= 3
       /\ \E c, d \in Routines : kbatch[c] = "failed" /\ kbatch[d] = "fetching"
    \/ /\ Cardinality({c \in Routines : obatch[c] # "none"}) >= 3
       /\ \E c, d \in Routines : obatch[c] = "failed" /\ obatch[d] = "fetching"

\* C2: a read that finds a value in the slot is answered with the slot's
\* value and no error, before it takes the slot's mutex and whatever the
\* other readers do: also when one of them holds the mutex in a refresh
\* whose fetch never returns.
C2_CachedReadReturns ==
    \A c \in Callers :
        /\ (kpc[c] = "load" /\ KeyCache # NoValue)
              ~> (/\ Returned("GetAllObjectKeys")
                  /\ Result.caller = c
                  /\ Result.cached
                  /\ Result.keys = [keys |-> ValueOf(KeyCache), err |-> NoError]
                  /\ kpc[c] = "lock_refresh"
                  /\ KeyCacheUpdateMutex # c)
        /\ (opc[c] = "load" /\ OrderingCache # NoValue)
              ~> (/\ Returned("GetAlbumOrderingConfiguration")
                  /\ Result.caller = c
                  /\ Result.cached
                  /\ Result.ordering = ValueOf(OrderingCache)
                  /\ Result.err = NoError
                  /\ opc[c] = "lock_refresh"
                  /\ AlbumOrderingUpdateMutex # c)

C2_Witness ==
    \/ /\ Returned("GetAllObjectKeys")
       /\ Result.cached
       /\ \E d \in Callers : d # Result.caller /\ kpc[d] = "fetch_refresh"
    \/ /\ Returned("GetAlbumOrderingConfiguration")
       /\ Result.cached
       /\ \E d \in Callers : d # Result.caller /\ opc[d] = "fetch_refresh"

\* the listing without the key of the album's ordering document
NonOrderingKeys(keys) ==
    SelectSeq(keys, LAMBDA key : key # Root(ORDERING_YAML_NAME))

\* C3: when the key read succeeds and the listing holds nothing but the
\* ordering document, GetOrderedPhotos returns an error to its caller and
\* does not index into the empty list.
C3_EmptyAlbumIsAnError ==
    (/\ Returned("GetOrderedPhotos")
     /\ Result.keys.err = NoError
     /\ NonOrderingKeys(Result.keys.keys) = <<>>)
        => Result.albumOrdering.status = "error"

\* C4: GetOrderedPhotos returns the error of the key read when it fails,
\* and a result with no error when the key read succeeds with at least one
\* key other than the ordering document's, whatever the ordering read
\* returned.
C4_OrderingFailuresNeverBlock ==
    Returned("GetOrderedPhotos") =>
        /\ Result.keys.err # NoError =>
               /\ Result.albumOrdering.status = "error"
               /\ Result.albumOrdering.err = Result.keys.err
        /\ (Result.keys.err = NoError /\ NonOrderingKeys(Result.keys.keys) # <<>>) =>
               /\ Result.albumOrdering.status = "ok"
               /\ Result.albumOrdering.err = NoError

\* C5: a read of the ordering slot that begins after a negative entry was
\* stored, and returns within TTL of that store, returns a negative
\* configuration with no error, and is not fetching while the store is
\* within TTL.
C5_NegativeEntryServed ==
    /\ (Returned("GetAlbumOrderingConfiguration") /\ Result.afterNegative) =>
           Result.err = NoError /\ Result.ordering.negativeCacheThis
    /\ \A c \in Routines :
           (onegative[c] /\ sinceNegativeStore <= CACHE_INTERVAL) =>
               opc[c] \notin KeyFetches

\* C6: a refresh whose fetch fails (a listing error; for the ordering slot
\* an error other than not-found or a malformed document) leaves the slot's
\* value and its timestamp as they were, and returns nothing to any caller:
\* an error a caller receives never comes with a cached answer.
FetchFailed(result) == result.err \notin {NoError, "NotFound", "ParseError"}

C7_NoEntryTwice ==
    Merged =>
        \A i, j \in 1..Len(MergedKeys) : i # j => MergedKeys[i] # MergedKeys[j]

\* C8 as stated: every entry of mergeList(A, P) is, as a string, an entry
\* of A.
C8_EntriesAreEntriesOfA ==
    Merged => \A i \in 1..Len(MergedKeys) : MergedKeys[i] \in Entries(Authoritative)

\* C8 as amended: every entry of mergeList(A, P) is an entry of A up to
\* leading path separators (a preferred entry keeps the spelling it has in
\* P), and a key of P that A does not hold, up to leading path separators,
\* never appears in the output.
C8_EntriesOfAUpToSeparators ==
    Merged =>
        /\ \A i \in 1..Len(MergedKeys) :
              \E a \in Entries(Authoritative) : SameKey(MergedKeys[i], a)
        /\ \A p \in Entries(Preferred) :
              (\A a \in Entries(Authoritative) : ~SameKey(p, a))
                  => p \notin Entries(MergedKeys)

C8_Witness ==
    /\ Merged
    /\ \E i \in 1..Len(MergedKeys) : MergedKeys[i] \notin Entries(Authoritative)
    /\ \E p \in Entries(Preferred) :
          \A a \in Entries(Authoritative) : ~SameKey(p, a)

\* C9: in mergeList(A, P) every entry of P that A holds comes before every
\* entry of A that P does not list, and the entries of A that P does not
\* list all appear, in the order A has them.
ListedInP(a) == \E p \in Entries(Preferred) : SameKey(p, a)
HeldByA(p) == \E a \in Entries(Authoritative) : SameKey(p, a)

C9_PreferredFirst ==
    Merged =>
        /\ \A p \in Entries(Preferred) :
              HeldByA(p) => p \in Entries(MergedKeys)
        /\ \A i, j \in 1..Len(MergedKeys) :
              (/\ MergedKeys[i] \in Entries(Preferred)
               /\ HeldByA(MergedKeys[i])
               /\ MergedKeys[j] \in Entries(Authoritative)
               /\ ~ListedInP(MergedKeys[j])) => i < j
        /\ \A k1, k2 \in 1..Len(Authoritative) :
              (/\ k1 < k2
               /\ ~ListedInP(Authoritative[k1])
               /\ ~ListedInP(Authoritative[k2]))
                  => \E i, j \in 1..Len(MergedKeys) :
                        /\ i < j
                        /\ MergedKeys[i] = Authoritative[k1]
                        /\ MergedKeys[j] = Authoritative[k2]

C9_Witness ==
    /\ Merged
    /\ \E p \in Entries(Preferred) : HeldByA(p)
    /\ \E k1, k2 \in 1..Len(Authoritative) :
          k1 < k2 /\ ~ListedInP(Authoritative[k1]) /\ ~ListedInP(Authoritative[k2])

\* C10: mergeList(A, []) = A: with an empty preferred list the output has
\* the entries of A in the order of A.
C10_EmptyPreferredIsIdentity ==
    (Merged /\ Preferred = <<>>) => MergedKeys = Authoritative

C10_Witness ==
    Merged /\ Preferred = <<>> /\ Len(Authoritative) >= 2

\* a string without one leading path separator, if it has one
StrippedOnce(s) == IF s # <<>> /\ s[1] = "/" THEN SubSeq(s, 2, Len(s)) ELSE s

Sought == merge # NoValue /\ ValueOf(merge).found # NoValue
Corpus == ValueOf(merge).corpus
Findme == ValueOf(merge).findme
Found == ValueOf(ValueOf(merge).found)

\* C11 as stated: containsPath(corpus, key) is true exactly when some corpus
\* entry with one leading path separator removed equals key with one
\* leading path separator removed.
C11_ContainsUpToOneSeparator ==
    Sought =>
        (Found <=> \E i \in 1..Len(Corpus) :
                       StrippedOnce(Corpus[i]) = StrippedOnce(Findme))

\* C11 as amended: containsPath(corpus, key) is true exactly when some
\* corpus entry with all its leading path separators removed equals key
\* with all its leading path separators removed.
C11_ContainsUpToLeadingSeparators ==
    Sought =>
        (Found <=> \E i \in 1..Len(Corpus) :
                       Stripped(Corpus[i]) = Stripped(Findme))

C11_Witness ==
    /\ Sought
    /\ Found
    /\ Len(Findme) >= 2 /\ Findme[1] = "/" /\ Findme[2] = "/"
    /\ \A i \in 1..Len(Corpus) : Corpus[i][1] # "/"

Resolved == merge # NoValue /\ ValueOf(merge).albumOrdering # NoValue
Configured == ValueOf(merge).configuration
Listed == ValueOf(merge).imageKeys
Photos == ValueOf(ValueOf(merge).albumOrdering)

\* the clean keys as the specification defines them
CleanKeys == NonOrderingKeys(Listed)

\* a listing in which only the ordering document's key ends in its name
PlainListing ==
    \A i \in 1..Len(CleanKeys) :
        CleanKeys[i][Len(CleanKeys[i])] # ORDERING_YAML_NAME[1]

KeysOf(photos) == [i \in 1..Len(photos) |-> photos[i].key]

Min(a, b) == IF a < b THEN a ELSE b

\* C12: with no thumbnails configured and a non-empty clean list, the
\* thumbnails of GetOrderedPhotos are the clean keys after the first, five of
\* them at most: never the first clean key, and none when there is one key.
C12_DefaultThumbnails ==
    (/\ Resolved
     /\ Configured.Thumbnails = <<>>
     /\ CleanKeys # <<>>
     /\ PlainListing)
        => /\ Photos.status = "ok"
           /\ KeysOf(Photos.Thumbnails) =
                  SubSeq(CleanKeys, 2, Min(6, Len(CleanKeys)))
           /\ Len(Photos.Thumbnails) <= 5
           /\ \A i \in 1..Len(Photos.Thumbnails) :
                  Photos.Thumbnails[i].key # CleanKeys[1]
           /\ Len(CleanKeys) = 1 => Photos.Thumbnails = <<>>

\* C13: with at least one thumbnail configured, the thumbnails of
\* GetOrderedPhotos are the first five entries (all of them when there are
\* fewer) of mergeList(cleanKeys, configured thumbnails), in that order, the
\* cover's key not excluded (stated for the calls that return a result).
C13_ConfiguredThumbnails ==
    (/\ Resolved
     /\ Len(Configured.Thumbnails) > 0
     /\ Photos.status = "ok")
        => LET merged == mergeList(CleanKeys, Configured.Thumbnails)
           IN  KeysOf(Photos.Thumbnails) =
                   SubSeq(merged, 1, Min(5, Len(merged)))

\* C14: for a non-empty clean key list GetOrderedPhotos returns no error, and
\* its cover is the configured cover when one is configured and the clean
\* keys hold it, and the first clean key in every other case.
C14_CoverSelection ==
    (Resolved /\ CleanKeys # <<>>)
        => /\ Photos.status = "ok"
           /\ Photos.err = NoError
           /\ Photos.Cover.key =
                  IF /\ Configured.Cover # <<>>
                     /\ \E i \in 1..Len(CleanKeys) :
                           SameKey(CleanKeys[i], Configured.Cover)
                  THEN Configured.Cover
                  ELSE CleanKeys[1]

\* the configuration GetOrderedPhotos works with when the document is absent:
\* the zero value of the first call, whose ordering read returned not-found,
\* or the negative entry served from the slot
NoDocument(received) ==
    [received EXCEPT !.negativeCacheThis = FALSE] = ZeroConfiguration

\* C15: with the ordering document absent and a non-empty listing, a call of
\* GetOrderedPhotos returns no error, the first clean key as cover and all
\* clean keys in listing order as ordering, on the first call and on the
\* calls served from the negative entry alike.
C15_NoDocumentSameResult ==
    (/\ Returned("GetOrderedPhotos")
     /\ NoDocument(Result.configuration)
     /\ Result.keys.err = NoError
     /\ Result.keys.keys # <<>>
     /\ NonOrderingKeys(Result.keys.keys) # <<>>)
        => /\ Result.albumOrdering.status = "ok"
           /\ Result.albumOrdering.err = NoError
           /\ Result.albumOrdering.Cover.key = NonOrderingKeys(Result.keys.keys)[1]
           /\ KeysOf(Result.albumOrdering.Ordering) = NonOrderingKeys(Result.keys.keys)

\* C16: a fetch for a slot is in progress only while the slot is empty or
\* its value is older than TTL; no reader fetches for a slot that holds a
\* value within TTL, readers that all found the slot empty included.
C16_FetchOnlyWhenEmptyOrStale ==
    \A c \in Routines :
        /\ kpc[c] \in KeyFetches =>
               KeyCache = NoValue \/ sinceKeyCacheUpdate > CACHE_INTERVAL
        /\ opc[c] \in KeyFetches =>
               OrderingCache = NoValue \/ sinceOrderingCacheUpdate > CACHE_INTERVAL

\* C17: at most one fetch is in progress per slot, and it runs while its
\* reader holds the slot's mutex; as long as a refresh fetch has not
\* returned, no other reader starts a fetch for the slot and the slot's
\* value and timestamp stay as they are.
OneFetchUnderMutex ==
    /\ Cardinality({c \in Routines : kpc[c] \in KeyFetches}) <= 1
    /\ Cardinality({c \in Routines : opc[c] \in KeyFetches}) <= 1
    /\ \A c \in Routines :
          /\ kpc[c] \in KeyFetches => KeyCacheUpdateMutex = c
          /\ opc[c] \in KeyFetches => AlbumOrderingUpdateMutex = c

NothingMovesDuringRefresh ==
    \A c \in Routines :
        /\ (kpc[c] = "fetch_refresh" /\ kpc'[c] = "fetch_refresh") =>
               /\ KeyCache' = KeyCache
               /\ sinceKeyCacheUpdate' >= sinceKeyCacheUpdate
               /\ \A d \in Routines \ {c} :
                      kpc'[d] \in KeyFetches => kpc[d] \in KeyFetches
        /\ (opc[c] = "fetch_refresh" /\ opc'[c] = "fetch_refresh") =>
               /\ OrderingCache' = OrderingCache
               /\ sinceOrderingCacheUpdate' >= sinceOrderingCacheUpdate
               /\ \A d \in Routines \ {c} :
                      opc'[d] \in KeyFetches => opc[d] \in KeyFetches

C17_OneFetchPerSlot == []OneFetchUnderMutex /\ [][NothingMovesDuringRefresh]_vars

C17_Witness ==
    \E c, d \in Routines :
        \/ kpc[c] = "fetch_refresh" /\ kpc[d] \in {"lock_refresh", "lock_first"}
        \/ opc[c] = "fetch_refresh" /\ opc[d] \in {"lock_refresh", "lock_first"}

\* C18: a first fetch that fails on an empty slot stores nothing: the slot
\* stays empty and its timestamp is not touched, the caller receives the
\* error and no value, and a read that then finds the slot empty goes to a
\* synchronous fetch, never to a cached answer.
FailedFirstFetchCachesNothing ==
    \A c \in Routines :
        /\ (/\ kpc[c] = "fetch_first" /\ kpc'[c] = "send_first"
            /\ KeyCache = NoValue
            /\ FetchFailed(ValueOf(klocal'[c])))
               => KeyCache' = NoValue /\ sinceKeyCacheUpdate' = sinceKeyCacheUpdate
        /\ (/\ opc[c] = "fetch_first" /\ opc'[c] = "send_first"
            /\ OrderingCache = NoValue
            /\ FetchFailed(ValueOf(olocal'[c])))
               => /\ OrderingCache' = NoValue
                  /\ sinceOrderingCacheUpdate' = sinceOrderingCacheUpdate
        /\ (/\ kpc[c] = "send_first" /\ kpc'[c] # "send_first"
            /\ FetchFailed(ValueOf(klocal[c])))
               => /\ ret' # NoValue
                  /\ ValueOf(ret').caller = c
                  /\ ValueOf(ret').keys = [keys |-> <<>>, err |-> ValueOf(klocal[c]).err]
                  /\ ~ValueOf(ret').cached
        /\ (/\ opc[c] = "send_first" /\ opc'[c] # "send_first"
            /\ FetchFailed(ValueOf(olocal[c])))
               => /\ ret' # NoValue
                  /\ ValueOf(ret').call = "GetAlbumOrderingConfiguration"
                  /\ ValueOf(ret').caller = c
                  /\ ValueOf(ret').err = ValueOf(olocal[c]).err
                  /\ ValueOf(ret').ordering = ZeroConfiguration
                  /\ ~ValueOf(ret').cached
        /\ (kpc[c] = "load" /\ kpc'[c] # "load" /\ KeyCache = NoValue)
               => kpc'[c] = "lock_first"
        /\ (opc[c] = "load" /\ opc'[c] # "load" /\ OrderingCache = NoValue)
               => opc'[c] = "lock_first"

C19_CleanKeysAreListingWithoutDocument ==
    (Resolved /\ Photos.status = "ok" /\ Configured.Ordering = <<>>)
        => KeysOf(Photos.Ordering) = CleanKeys

\* the ordering fetch has returned
Preprocessed == merge # NoValue /\ ValueOf(merge).fetched # NoValue
Document == ValueOf(merge).outcome.doc
Preprocessing == ValueOf(ValueOf(merge).fetched)

\* C20: after a successful ordering fetch the thumbnails and ordering lists
\* of the configuration to be stored are as long as the document's lists and
\* entry i of each is the document's entry i resolved against the album's
\* path: no entry is left as written and none is added.
C20_ListsResolvedInPlace ==
    (Preprocessed /\ Preprocessing.err = NoError)
        => /\ Len(Preprocessing.ordering.Thumbnails) = Len(Document.Thumbnails)
           /\ Len(Preprocessing.ordering.Ordering) = Len(Document.Ordering)
           /\ \A i \in 1..Len(Document.Thumbnails) :
                  Preprocessing.ordering.Thumbnails[i]
                      = ResolveReference(Path, Document.Thumbnails[i])
           /\ \A i \in 1..Len(Document.Ordering) :
                  Preprocessing.ordering.Ordering[i]
                      = ResolveReference(Path, Document.Ordering[i])

====
